---------------------------- MODULE Spec2Model ----------------------------
(***************************************************************************)
(* Model of the markdown-editor server: the path admission check           *)
(* (src/src/utils/security.ts) and the single-instance / port-probing      *)
(* start-up and shutdown code of the server (src/unnamed/part_002).        *)
(*                                                                         *)
(* Strings that the code inspects character by character (paths,           *)
(* extensions) are sequences of one-character strings.                     *)
(***************************************************************************)
EXTENDS Integers, Sequences, FiniteSets, TLC

(***************************************************************************)
(* Bounds of the model.                                                    *)
(***************************************************************************)
\* longest raw path, in segments, that a request carries
MaxSegs == 4
\* the configured maxFileSize (MAX_FILE_SIZE), scaled down
MaxFileSize == 2
\* maxAttempts of startServerOnAvailablePort (10 in the code), scaled down
MaxAttempts == 4

\* the longest path validateFilePathInput accepts (500 in the code), scaled
\* down
MaxPathLength == 10

\* the window of the rate limiter in ms (60000 in the code), scaled down
RATE_LIMIT_WINDOW == 3
\* the requests it lets through per window (100 in the code), scaled down
RATE_LIMIT_MAX_REQUESTS == 2
\* the last instant of the clock
MaxTime == 5
\* the most requests that arrive
MaxRequests == 5

\* the longest text in the editor
MaxTextLen == 1

\* the longest content handed to sanitizeFileContent
MaxContentLen == 4

\* the preferred port: parseInt(process.env.PORT || "3000", 10)
PORT == 3000

VARIABLES
  \* ---- path admission (validateFilePath) ----
  filePath,        \* the raw path handed to validateFilePath
  config,          \* the SecurityConfig
  fsKind,          \* what the filesystem holds at the normalized path
  fsSize,          \* its size in bytes
  vpc,             \* position inside validateFilePath
  decision,        \* the value validateFilePath returned
  \* ---- instance coordination (lock file, port probing, shutdown) ----
  lock,            \* the content of the lock file in the working directory
  ext,             \* the process, not a server of this model, a lock may name
  portUse,         \* what a listen on each port meets outside the model
  pc,              \* where each server process stands
  attempt,         \* the loop variable of startServerOnAvailablePort
  port,            \* the port each process bound (0: none)
  listening,       \* whether the process's socket is listening
  exitCode,        \* how the process ended
  startupError,    \* the failure the process logged before exiting
  reported,        \* the pid and port named in that message
  warned,          \* "Invalid lock file detected" was logged
  prelimSaw,       \* what the preliminary check found: "absent", "corrupt",
                   \* "nopid", "stale", "foreign" or "live"
  acqSaw,          \* what acquireLock found, likewise
  releaseLog,      \* what releaseLock logged: "none", "Lock file removed",
                   \* "Failed to remove lock file" or "silent" (ENOENT)
  \* ---- one request to /api/file/read or /api/file/save ----
  endpoint,        \* "read" or "save"
  bodyPath,        \* req.body.filePath
  bodyContent,     \* req.body.content
  fsAccess,        \* the file's permissions let fs.access succeed
  fsFault,         \* readFile / writeFile meets an I/O error
  hpc,             \* position inside the handler
  response,        \* the status and body sent
  securityLog,     \* the events passed to logSecurityEvent
  touched,         \* the calls the handler made on the target after admission
  \* ---- the environment and the loading of the configuration ----
  envDirs,         \* process.env.ALLOWED_DIRECTORIES
  envMaxSize,      \* process.env.MAX_FILE_SIZE
  spc,             \* "load", "loaded" or "exited"
  loadExit,        \* the exit code of a failed load
  \* ---- two calls of validateFilePath in a row, and the payload of a save ----
  calls,           \* how many calls of validateFilePath were started
  prevPath,        \* the raw path of the first call
  prevDecision,    \* what the first call returned
  fsAtStart,       \* the kind and size of the target before the first call
  written,         \* the payload the save endpoint handed to writeFile
  \* ---- the rate limiting middleware ----
  now,             \* Date.now()
  rateLimitStore,  \* per IP: no record, or { count, resetTime }
  passed,          \* per IP: the arrival times of the requests passed on
  rejected,        \* per IP: the arrival times of the requests answered 429
  \* ---- the editor in the browser ----
  editorValue,     \* elements.editor.value
  isDirty,         \* state.isDirty
  isSaving,        \* state.isSaving
  currentFilePath, \* state.currentFilePath: a file is loaded
  localDraft,      \* the draft in local storage, or none
  saveInFlight,    \* the content of the save request under way, or none
  loadInFlight,    \* a read request is under way
  lastSynced,      \* the content last loaded or successfully saved
  diskContent,     \* the content of the file on the server
  \* ---- sanitizeFileContent ----
  sanInput,        \* the string handed to sanitizeFileContent
  sanOutput        \* what it returned, and what it returned for that

pathVars == <<filePath, config, fsKind, fsSize, vpc, decision>>

coordVars ==
  <<lock, ext, portUse, pc, attempt, port, listening, exitCode, startupError,
    reported, warned, prelimSaw, acqSaw, releaseLog>>

reqVars ==
  <<endpoint, bodyPath, bodyContent, fsAccess, fsFault, hpc, response,
    securityLog, touched>>

envVars == <<envDirs, envMaxSize, spc, loadExit>>

callVars == <<calls, prevPath, prevDecision, fsAtStart, written>>

rateVars == <<now, rateLimitStore, passed, rejected>>

editorVars ==
  <<editorValue, isDirty, isSaving, currentFilePath, localDraft, saveInFlight,
    loadInFlight, lastSynced, diskContent>>

sanVars == <<sanInput, sanOutput>>

moreVars == <<callVars, rateVars, editorVars, sanVars>>

vars == <<pathVars, coordVars, reqVars, envVars, moreVars>>

(***************************************************************************)
(* Strings                                                                 *)
(***************************************************************************)
Slash == "/"
Dot == "."

\* String.prototype.startsWith
StartsWith(s, pre) ==
  /\ Len(pre) <= Len(s)
  /\ SubSeq(s, 1, Len(pre)) = pre

\* String.prototype.split(sep) for a one-character separator
RECURSIVE SplitFrom(_, _, _)
SplitFrom(s, sep, cur) ==
  IF s = <<>> THEN <<cur>>
  ELSE IF Head(s) = sep THEN <<cur>> \o SplitFrom(Tail(s), sep, <<>>)
  ELSE SplitFrom(Tail(s), sep, Append(cur, Head(s)))

Split(s, sep) == SplitFrom(s, sep, <<>>)

\* String.prototype.toLowerCase, on the alphabet of the model
LowerChar(c) ==
  CASE c = "M" -> "m"
    [] c = "D" -> "d"
    [] c = "X" -> "x"
    [] OTHER -> c

ToLowerCase(s) == [i \in 1..Len(s) |-> LowerChar(s[i])]

(***************************************************************************)
(* Numbers: an integer or NaN                                              *)
(***************************************************************************)
Num(n) == [nan |-> FALSE, v |-> n]
NaN == [nan |-> TRUE, v |-> 0]

\* a > b for an integer a and a number b: false when b is NaN
Gt(a, b) == ~b.nan /\ a > b.v

Digits == {"0", "1", "2", "3", "4", "5", "6", "7", "8", "9"}

DigitVal(c) ==
  CASE c = "0" -> 0 [] c = "1" -> 1 [] c = "2" -> 2 [] c = "3" -> 3
    [] c = "4" -> 4 [] c = "5" -> 5 [] c = "6" -> 6 [] c = "7" -> 7
    [] c = "8" -> 8 [] c = "9" -> 9

DigitChar(d) == CHOOSE c \in Digits : DigitVal(c) = d

RECURSIVE NatToChars(_)
NatToChars(n) ==
  IF n < 10 THEN <<DigitChar(n)>>
  ELSE NatToChars(n \div 10) \o <<DigitChar(n % 10)>>

\* a number inside a template string
NumToChars(x) ==
  IF x.nan THEN <<"N", "a", "N">>
  ELSE IF x.v < 0 THEN <<"-">> \o NatToChars(0 - x.v)
  ELSE NatToChars(x.v)

(***************************************************************************)
(* path.resolve and path.normalize (POSIX)                                 *)
(***************************************************************************)
\* process.cwd() of the server
Cwd == <<"/", "w">>

\* the segments of an absolute path with "." and ".." collapsed
RECURSIVE Collapse(_, _)
Collapse(segs, acc) ==
  IF segs = <<>> THEN acc
  ELSE LET h == Head(segs) IN
       IF h = <<>> \/ h = <<Dot>> THEN Collapse(Tail(segs), acc)
       ELSE IF h = <<Dot, Dot>>
            THEN Collapse(Tail(segs),
                          IF acc = <<>> THEN acc ELSE SubSeq(acc, 1, Len(acc) - 1))
            ELSE Collapse(Tail(segs), Append(acc, h))

RECURSIVE JoinAbs(_)
JoinAbs(segs) ==
  IF segs = <<>> THEN <<>>
  ELSE <<Slash>> \o Head(segs) \o JoinAbs(Tail(segs))

\* path.resolve(p): absolute, normalized, no trailing separator
Resolve(p) ==
  LET abs == IF p # <<>> /\ Head(p) = Slash THEN p ELSE Cwd \o <<Slash>> \o p
      segs == Collapse(Split(abs, Slash), <<>>)
  IN IF segs = <<>> THEN <<Slash>> ELSE JoinAbs(segs)

\* path.normalize of an already resolved path: nothing is left to collapse
Normalize(p) ==
  LET segs == Collapse(Split(p, Slash), <<>>)
  IN IF segs = <<>> THEN <<Slash>> ELSE JoinAbs(segs)


(***************************************************************************)
(* The inputs of the admission check                                       *)
(***************************************************************************)
\* file names that set the extension check apart: upper case, no dot, a
\* trailing dot, dot-files, two dots
FileNames ==
  { <<"x", Dot, "m", "d">>, <<"X", Dot, "M", "D">>, <<"x", Dot, "M", "d">>,
    <<"x">>, <<"x", Dot>>, <<Dot, "m", "d">>, <<Dot, "e">>, <<"x", Dot, "e">>,
    <<"x", Dot, "e", Dot, "m", "d">>, <<"x", Dot, "m", "d", Dot, "e">> }

\* the directories they lie in, one of them with a dot in its name
FileDirs ==
  { <<Slash, "s">>, <<Slash, "s", Slash, "d", Dot, "m", "d">>, <<Slash, "t">>,
    <<Slash, "s", "-", "o">> }

NamedPaths == { d \o <<Slash>> \o n : d \in FileDirs, n \in FileNames }

\* path segments a request may carry
Segs ==
  { <<"s">>, <<"s", "-", "o">>, <<"t">>, <<Dot, Dot>>, <<Dot>>,
    <<"x", Dot, "m", "d">>, <<"x", Dot, "e">> }

RECURSIVE JoinRel(_)
JoinRel(segs) ==
  IF Len(segs) = 1 THEN Head(segs)
  ELSE Head(segs) \o <<Slash>> \o JoinRel(Tail(segs))

SegSeqs == UNION { [1..n -> Segs] : n \in 1..MaxSegs }

\* the raw paths: absolute ones, and shorter ones relative to the working
\* directory
RawPaths ==
  { JoinAbs(ss) : ss \in SegSeqs }
  \cup { JoinRel(ss) : ss \in { t \in SegSeqs : Len(t) < MaxSegs } }

\* createSecurityConfig: the extensions are fixed, the rest is configuration
AllowedExtensions ==
  << <<"m", "d">>, <<"m", "a", "r", "k", "d", "o", "w", "n">>, <<"t", "x", "t">> >>

AllowedDirChoices ==
  { << <<Slash, "s">> >>,
    << <<Slash, "s", Slash>>, <<Slash, "t">> >> }

Configs ==
  { [allowedDirectories |-> ds, maxFileSize |-> Num(MaxFileSize),
     allowedExtensions |-> AllowedExtensions] : ds \in AllowedDirChoices }

(***************************************************************************)
(* validateFilePath                                                        *)
(***************************************************************************)
Includes(seq, x) == \E i \in 1..Len(seq) : seq[i] = x

\* error.message of a failed filesystem call that names a path:
\* "ENOENT: no such file or directory, stat '/s/x.md'"
ErrnoMessage(code, syscall, path) == <<code, syscall>> \o path

\* error.message of a failed read or write of an open file: "EIO: i/o
\* error, read"
ErrnoMessageNoPath(code, syscall) == <<code, syscall>>

\* a denial: the fixed text of its error string, and the text the template
\* string puts into it
Deny(msg, detail) == [valid |-> FALSE, error |-> msg, detail |-> detail]
Allow == [valid |-> TRUE, error |-> "", detail |-> <<>>]
NoDecision == [valid |-> FALSE, error |-> "pending", detail |-> <<>>]

\* faulty variant of NormalizedPath: the raw path is taken as it is
RawPath(p) == p

\* const normalizedPath = normalize(resolve(filePath))
NormalizedPath(p) == Normalize(Resolve(p))

\* config.allowedDirectories.some(...): the containment test of the code
IsAllowed(np, cfg) ==
  \E i \in 1..Len(cfg.allowedDirectories) :
    LET normalizedAllowed == Normalize(Resolve(cfg.allowedDirectories[i]))
    IN \/ StartsWith(np, normalizedAllowed \o <<Slash>>)
       \/ StartsWith(np, normalizedAllowed)

\* normalizedPath.split(".").pop()?.toLowerCase()
Extension(np) ==
  LET parts == Split(np, Dot)
  IN ToLowerCase(parts[Len(parts)])

\* faulty variant of SizeExceeds: a file exactly at the limit is refused
SizeAtLeast(size, maxFileSize) == ~maxFileSize.nan /\ size >= maxFileSize.v

\* stats.size > config.maxFileSize
SizeExceeds(size, maxFileSize) == Gt(size, maxFileSize)

\* the checks that follow a successful statSync
AfterStat(np, cfg, isFile, size) ==
  IF ~isFile THEN Deny("Path is not a file", <<>>)
  ELSE IF ~IsAllowed(np, cfg) THEN Deny("File is outside allowed directories", <<>>)
  ELSE LET extension == Extension(np) IN
       IF extension = <<>> \/ ~Includes(cfg.allowedExtensions, extension)
       THEN Deny("File extension is not allowed", extension)
       ELSE IF SizeExceeds(size, cfg.maxFileSize)
            THEN Deny("File size exceeds maximum allowed size",
                      NumToChars(cfg.maxFileSize))
            ELSE Allow

\* existsSync(normalizedPath)
ExistsCheck ==
  /\ vpc = "start"
  /\ IF fsKind = "none"
     THEN /\ decision' = Deny("File does not exist", <<>>)
          /\ vpc' = "done"
     ELSE /\ vpc' = "exists"
          /\ UNCHANGED decision
  /\ UNCHANGED <<filePath, config, fsKind, fsSize, coordVars, reqVars, envVars,
                 moreVars>>

\* statSync(normalizedPath) and everything after it; a throw is caught
StatAndDecide ==
  /\ vpc = "exists"
  /\ decision' =
       IF fsKind = "none"
       THEN Deny("Path validation error",
                 ErrnoMessage("ENOENT", "stat", NormalizedPath(filePath)))
       ELSE AfterStat(NormalizedPath(filePath), config, fsKind = "file", fsSize)
  /\ vpc' = "done"
  /\ UNCHANGED <<filePath, config, fsKind, fsSize, coordVars, reqVars, envVars,
                 moreVars>>

\* another program removes the target while the check or the handler that
\* called it is running
FsUnlink ==
  /\ vpc # "done" \/ hpc \in {"admission", "access", "io"}
  /\ fsKind # "none"
  /\ fsKind' = "none"
  /\ fsSize' = 0
  /\ UNCHANGED <<filePath, config, vpc, decision, coordVars, reqVars, envVars,
                 moreVars>>

\* other spellings of the raw path p, with detours through ".." and "."
Detours(p) ==
  IF p # <<>> /\ Head(p) = Slash
  THEN { p,
         <<Slash, "t", Slash, Dot, Dot>> \o p,
         <<Slash, "s", Slash, Dot, Dot>> \o p,
         <<Slash, Dot>> \o p,
         p \o <<Slash, Dot>>,
         <<Dot, Dot>> \o p }
  ELSE { p, <<Dot, Slash>> \o p, Cwd \o <<Slash>> \o p }

\* validateFilePath is called a second time, with the same policy, for a
\* spelling of the path it was called with
CallAgain ==
  /\ vpc = "done"
  /\ calls = 1
  /\ calls' = 2
  /\ prevPath' = filePath
  /\ prevDecision' = decision
  /\ \E q \in Detours(filePath) : filePath' = q
  /\ vpc' = "start"
  /\ decision' = NoDecision
  /\ UNCHANGED <<config, fsKind, fsSize, fsAtStart, written, coordVars, reqVars,
                 envVars, rateVars, editorVars, sanVars>>

(***************************************************************************)
(* validateFilePathInput and validateContentSize                           *)
(***************************************************************************)
\* characters the input check looks for, and the blank
Space == " "
LF == "LF"
CR == "CR"
NUL == "NUL"
\* the byte-order mark U+FEFF
BOM == "BOM"

\* a value of a JSON body: a string, or something of another type
JsString(v) == [type |-> "string", val |-> v]
JsOther(t) == [type |-> t, val |-> <<>>]

\* what validateFilePathInput returns: null or the trimmed string
Null == [isNull |-> TRUE, val |-> <<>>]
Str(v) == [isNull |-> FALSE, val |-> v]

\* the characters String.prototype.trim removes at both ends
IsWhiteSpace(c) == c \in {Space, LF, CR}

RECURSIVE TrimStart(_)
TrimStart(v) ==
  IF v # <<>> /\ IsWhiteSpace(Head(v)) THEN TrimStart(Tail(v)) ELSE v

RECURSIVE TrimEnd(_)
TrimEnd(v) ==
  IF v # <<>> /\ IsWhiteSpace(v[Len(v)])
  THEN TrimEnd(SubSeq(v, 1, Len(v) - 1))
  ELSE v

Trim(v) == TrimEnd(TrimStart(v))

\* trimmedInput.includes("\0") || includes("\n") || includes("\r")
ControlCharsIn(v) == Includes(v, NUL) \/ Includes(v, LF) \/ Includes(v, CR)

validateFilePathInput(input) ==
  IF input.type # "string" THEN Null
  ELSE LET trimmedInput == Trim(input.val) IN
       IF Len(trimmedInput) = 0 \/ Len(trimmedInput) > MaxPathLength THEN Null
       ELSE IF ControlCharsIn(trimmedInput) THEN Null
       ELSE Str(trimmedInput)

\* Buffer.byteLength(content, "utf8"): U+FEFF takes three bytes, the other
\* characters of the model one
RECURSIVE ByteLength(_)
ByteLength(content) ==
  IF content = <<>> THEN 0
  ELSE (IF Head(content) = BOM THEN 3 ELSE 1) + ByteLength(Tail(content))

\* content.replace(/^\ufeff/, ""): one byte-order mark at the start goes
StripLeadingBom(s) == IF s # <<>> /\ Head(s) = BOM THEN Tail(s) ELSE s

\* .replace(/\0/g, ""): every null byte goes
RemoveNuls(s) == SelectSeq(s, LAMBDA c : c # NUL)

\* sanitizeFileContent: "" for what is no string
sanitizeFileContent(content) ==
  IF content.type # "string" THEN <<>>
  ELSE RemoveNuls(StripLeadingBom(content.val))

\* sanitizeFileContent is applied, to the input and then to its own result
Sanitize ==
  /\ Len(sanOutput) < 2
  /\ sanOutput' = Append(sanOutput,
                         IF sanOutput = <<>>
                         THEN sanitizeFileContent(sanInput)
                         ELSE sanitizeFileContent(JsString(sanOutput[Len(sanOutput)])))
  /\ UNCHANGED <<sanInput, pathVars, coordVars, reqVars, envVars, callVars,
                 rateVars, editorVars>>

validateContentSize(content, maxSize) ==
  IF Gt(ByteLength(content), maxSize)
  THEN [valid |-> FALSE, error |-> "Content exceeds maximum size"]
  ELSE [valid |-> TRUE, error |-> ""]

(***************************************************************************)
(* The inputs of the request handlers                                      *)
(***************************************************************************)
Filler(n) == [i \in 1..n |-> "a"]

\* /s/aa...a.md of n characters, n > 6
LongPath(n) == <<Slash, "s", Slash>> \o Filler(n - 6) \o <<Dot, "m", "d">>

BasePaths ==
  { <<Slash, "s", Slash, "x", Dot, "m", "d">>,
    <<Slash, "t", Slash, "x", Dot, "m", "d">>,
    <<Slash, "s", Slash, "x", Dot, "e">>,
    <<"x", Dot, "m", "d">> }

\* strings a body may carry as filePath: paths, bare or wrapped in blanks
\* and control characters, or with one inside; blank strings; strings at
\* and over the length limit, bare or padded with blanks
PathStrings ==
  { pre \o b \o suf : pre \in {<<>>, <<Space>>, <<LF>>}, b \in BasePaths,
                      suf \in {<<>>, <<Space>>, <<LF>>, <<CR>>, <<NUL>>} }
  \cup { SubSeq(b, 1, 2) \o <<c>> \o SubSeq(b, 3, Len(b)) :
           b \in BasePaths, c \in {LF, CR, NUL, Space} }
  \cup { <<>>, <<Space>>, <<Space, LF>> }
  \cup { LongPath(MaxPathLength), LongPath(MaxPathLength + 1),
         <<Space>> \o LongPath(MaxPathLength) \o <<Space>>,
         <<Space>> \o LongPath(MaxPathLength + 1) }

BodyPaths ==
  { JsString(v) : v \in PathStrings }
  \cup { JsOther("undefined"), JsOther("number"), JsOther("object") }

BodyContents ==
  { JsString(Filler(n)) : n \in {0, MaxFileSize, MaxFileSize + 1} }
  \cup { JsString(<<"a", NUL>>), JsString(<<BOM>>) }
  \cup { JsOther("undefined"), JsOther("number") }

(***************************************************************************)
(* POST /api/file/read and POST /api/file/save                             *)
(***************************************************************************)
\* no payload was handed to writeFile
NoPayload == [done |-> FALSE, val |-> <<>>]
Payload(v) == [done |-> TRUE, val |-> v]

Respond(status, err) == [status |-> status, error |-> err]
Success == [status |-> 200, error |-> ""]
NoResponse == [status |-> 0, error |-> ""]

\* logSecurityEvent(event, { error }): the event and the error string, the
\* latter as its fixed text and the text put into it; filePath and content
\* are logged as "[REDACTED]"
LogEntry(event, err, detail) ==
  [event |-> event, error |-> err, detail |-> detail,
   filePath |-> "[REDACTED]", content |-> "[REDACTED]"]

\* faulty variant of Admitted: the decision is not looked at
AdmittedAlways(d) == TRUE

\* validation.valid
Admitted(d) == d.valid

\* faulty variant of DenialBody: the reason of the denial is sent
DenialReason(d) == d.error

\* the body of the response to a denied request
DenialBody(d) == "Access denied"

\* what a handler leaves alone: the request, the file's permissions, the
\* environment
ReqInputs ==
  <<endpoint, bodyPath, bodyContent, fsAccess, fsFault, envVars, calls,
    prevPath, prevDecision, fsAtStart, rateVars, editorVars, sanVars>>

\* validateFilePathInput(body.filePath); on a path, validateFilePath is
\* entered with it
ReqValidateInput ==
  /\ hpc = "input"
  /\ LET validatedPath == validateFilePathInput(bodyPath) IN
     IF validatedPath.isNull
     THEN /\ response' = Respond(400, "Invalid file path format")
          /\ hpc' = "done"
          /\ UNCHANGED <<filePath, vpc, decision>>
     ELSE /\ filePath' = validatedPath.val
          /\ vpc' = "start"
          /\ decision' = NoDecision
          /\ hpc' = "admission"
          /\ UNCHANGED response
  /\ UNCHANGED <<config, fsKind, fsSize, coordVars, ReqInputs, securityLog,
                 touched, written>>

\* validateFilePath has returned: the denial, or the checks of the content
\* (save only) that come before the first filesystem call
ReqAdmitted ==
  /\ hpc = "admission"
  /\ vpc = "done"
  /\ IF ~Admitted(decision)
     THEN /\ securityLog' = Append(securityLog,
                 LogEntry("Invalid file path access attempt", decision.error,
                          decision.detail))
          /\ response' = Respond(403, DenialBody(decision))
          /\ hpc' = "done"
     ELSE IF endpoint = "save" /\ bodyContent.type # "string"
     THEN /\ response' = Respond(400, "Content must be a string")
          /\ hpc' = "done"
          /\ UNCHANGED securityLog
     ELSE IF endpoint = "save"
             /\ ~validateContentSize(bodyContent.val, config.maxFileSize).valid
     THEN /\ response' =
               Respond(400, validateContentSize(bodyContent.val,
                                                config.maxFileSize).error)
          /\ hpc' = "done"
          /\ UNCHANGED securityLog
     ELSE /\ hpc' = "access"
          /\ UNCHANGED <<response, securityLog>>
  /\ UNCHANGED <<pathVars, coordVars, ReqInputs, touched, written>>

\* await fs.access(filePath, mode); whatever it throws gives 403
ReqAccess ==
  /\ hpc = "access"
  /\ touched' = touched \cup {"access"}
  /\ IF fsKind = "none" \/ ~fsAccess
     THEN /\ response' =
               Respond(403, IF endpoint = "read" THEN "File is not readable"
                                                 ELSE "File is not writable")
          /\ hpc' = "done"
     ELSE /\ hpc' = "io"
          /\ UNCHANGED response
  /\ UNCHANGED <<pathVars, coordVars, ReqInputs, securityLog, written>>

\* await fs.readFile(filePath) or fs.writeFile(validatedPath, content); a
\* throw reaches the catch of the handler
ReqIo ==
  /\ hpc = "io"
  /\ hpc' = "done"
  /\ IF endpoint = "read"
     THEN /\ touched' = touched \cup {"readFile"}
          /\ IF fsKind = "none" \/ fsFault
             THEN /\ securityLog' = Append(securityLog,
                         LogEntry("File read error", "",
                                  IF fsKind = "none"
                                  THEN ErrnoMessage("ENOENT", "open", filePath)
                                  ELSE ErrnoMessageNoPath("EIO", "read")))
                  /\ response' = Respond(500, "Failed to read file")
             ELSE /\ response' = Success
                  /\ UNCHANGED securityLog
          /\ UNCHANGED <<fsKind, fsSize, written>>
     ELSE /\ touched' = touched \cup {"writeFile"}
          /\ IF fsFault
             THEN /\ securityLog' = Append(securityLog,
                         LogEntry("File save error", "",
                                  ErrnoMessageNoPath("EIO", "write")))
                  /\ response' = Respond(500, "Failed to save file")
                  /\ UNCHANGED <<fsKind, fsSize, written>>
             ELSE /\ fsKind' = "file"
                  /\ fsSize' = ByteLength(bodyContent.val)
                  /\ written' = Payload(bodyContent.val)
                  /\ response' = Success
                  /\ UNCHANGED securityLog
  /\ UNCHANGED <<filePath, config, vpc, decision, coordVars, ReqInputs>>

(***************************************************************************)
(* createSecurityConfig                                                    *)
(***************************************************************************)
\* an environment variable: unset, or set to a string
Unset == [set |-> FALSE, val |-> <<>>]
EnvVal(v) == [set |-> TRUE, val |-> v]

\* process.env.X || fallback: the fallback for an unset or empty variable
OrElse(e, fallback) == IF e.set /\ e.val # <<>> THEN e.val ELSE fallback

\* the leading decimal digits of s as a number; NaN when there is none
RECURSIVE ParseDigits(_, _, _)
ParseDigits(s, acc, seen) ==
  IF s = <<>> \/ Head(s) \notin Digits
  THEN IF seen THEN Num(acc) ELSE NaN
  ELSE ParseDigits(Tail(s), acc * 10 + DigitVal(Head(s)), TRUE)

\* parseInt(s, 10): leading blanks, an optional sign, then digits; what
\* follows the digits is ignored
ParseInt(s) ==
  LET t == TrimStart(s)
      signed == t # <<>> /\ Head(t) \in {"-", "+"}
      r == ParseDigits(IF signed THEN Tail(t) ELSE t, 0, FALSE)
  IN IF r.nan THEN NaN
     ELSE IF signed /\ Head(t) = "-" THEN Num(0 - r.v) ELSE r

\* .map((dir) => dir.trim()).filter((dir) => dir.length > 0)
SelectNonEmpty(seq) == SelectSeq(seq, LAMBDA d : Len(d) > 0)

TrimAll(seq) == [i \in 1..Len(seq) |-> Trim(seq[i])]

\* the MAX_FILE_SIZE used when the variable is unset or empty
DefaultMaxFileSize == <<"5", "2", "4", "2", "8", "8", "0">>

Threw(msg) == [threw |-> TRUE, error |-> msg]

\* createSecurityConfig: the policy, or the Error it throws
createSecurityConfig(dirsVar, sizeVar) ==
  LET allowedDirs == OrElse(dirsVar, <<>>)
      maxSize == ParseInt(OrElse(sizeVar, DefaultMaxFileSize))
      allowedDirectories == SelectNonEmpty(TrimAll(Split(allowedDirs, ",")))
  IN IF Len(allowedDirectories) = 0
     THEN Threw("No allowed directories configured")
     ELSE [threw |-> FALSE,
           allowedDirectories |-> allowedDirectories,
           maxFileSize |-> maxSize,
           allowedExtensions |-> AllowedExtensions]

\* the policy before it is loaded
NoConfig ==
  [allowedDirectories |-> <<>>, maxFileSize |-> NaN, allowedExtensions |-> <<>>]

\* the server module is loaded: securityConfig = createSecurityConfig(), a
\* throw is logged and followed by process.exit(1)
LoadConfig ==
  /\ spc = "load"
  /\ LET c == createSecurityConfig(envDirs, envMaxSize) IN
     IF c.threw
     THEN /\ spc' = "exited"
          /\ loadExit' = "1"
          /\ UNCHANGED config
     ELSE /\ spc' = "loaded"
          /\ config' = [allowedDirectories |-> c.allowedDirectories,
                        maxFileSize |-> c.maxFileSize,
                        allowedExtensions |-> c.allowedExtensions]
          /\ UNCHANGED loadExit
  /\ UNCHANGED <<filePath, fsKind, fsSize, vpc, decision, coordVars, reqVars,
                 envDirs, envMaxSize, moreVars>>

\* values of ALLOWED_DIRECTORIES
EnvDirChoices ==
  { Unset, EnvVal(<<>>), EnvVal(<<Space>>), EnvVal(<<",">>),
    EnvVal(<<Space, ",", Space>>),
    EnvVal(<<Slash, "s">>),
    EnvVal(<<Slash, "s", ",", Slash, "t">>),
    EnvVal(<<Space, Slash, "s", Space, ",", Space>>),
    EnvVal(<<",", Slash, "s", ",">>),
    EnvVal(<<Slash, "s", Slash, ",", ",", Slash, "t">>),
    EnvVal(<<"s">>) }

\* values of MAX_FILE_SIZE
EnvSizeChoices ==
  { Unset, EnvVal(<<>>), EnvVal(<<"2">>), EnvVal(<<"1", "0">>), EnvVal(<<"0">>),
    EnvVal(<<"-", "1">>), EnvVal(<<"+", "4">>), EnvVal(<<"a", "b", "c">>),
    EnvVal(<<"2", "x">>), EnvVal(<<Space, "3">>), EnvVal(<<"2", Dot, "5">>),
    EnvVal(<<"-">>), EnvVal(<<Space>>) }

(***************************************************************************)
(* The rate limiting middleware                                            *)
(***************************************************************************)
\* rateLimitStore.get(ip) of an IP without record
NoRecord == [count |-> 0, resetTime |-> 0]

\* req.ip of the clients
Ips == {"ip1", "ip2"}

\* the periodic cleanup: entries whose resetTime lies before now go
Cleanup(store, t) ==
  [ip \in Ips |-> IF store[ip] # NoRecord /\ store[ip].resetTime < t
                  THEN NoRecord ELSE store[ip]]

\* one request of ip goes through the middleware: it is counted, and
\* answered 429 or passed on with next(); now and then the store is
\* cleaned before next()
RateLimit(ip) ==
  /\ Len(passed["ip1"]) + Len(passed["ip2"])
       + Len(rejected["ip1"]) + Len(rejected["ip2"]) < MaxRequests
  /\ LET record == rateLimitStore[ip] IN
     IF record # NoRecord /\ record.resetTime > now
     THEN LET counted == [record EXCEPT !.count = @ + 1]
              store == [rateLimitStore EXCEPT ![ip] = counted]
          IN IF counted.count > RATE_LIMIT_MAX_REQUESTS
             THEN /\ rateLimitStore' = store
                  /\ securityLog' = Append(securityLog,
                       [event |-> "Rate limit exceeded", ip |-> ip])
                  /\ rejected' = [rejected EXCEPT ![ip] = Append(@, now)]
                  /\ UNCHANGED passed
             ELSE /\ \E clean \in BOOLEAN :
                       rateLimitStore' = IF clean THEN Cleanup(store, now) ELSE store
                  /\ passed' = [passed EXCEPT ![ip] = Append(@, now)]
                  /\ UNCHANGED <<rejected, securityLog>>
     ELSE LET store == [rateLimitStore EXCEPT ![ip] =
                          [count |-> 1, resetTime |-> now + RATE_LIMIT_WINDOW]]
          IN /\ \E clean \in BOOLEAN :
                  rateLimitStore' = IF clean THEN Cleanup(store, now) ELSE store
             /\ passed' = [passed EXCEPT ![ip] = Append(@, now)]
             /\ UNCHANGED <<rejected, securityLog>>
  /\ UNCHANGED <<now, pathVars, coordVars, endpoint, bodyPath, bodyContent,
                 fsAccess, fsFault, hpc, response, touched, envVars, callVars,
                 editorVars, sanVars>>

\* a millisecond passes
Tick ==
  /\ now < MaxTime
  /\ now' = now + 1
  /\ UNCHANGED <<rateLimitStore, passed, rejected, pathVars, coordVars, reqVars,
                 envVars, callVars, editorVars, sanVars>>

(***************************************************************************)
(* The editor page: state, the draft in local storage, load, save, clear   *)
(***************************************************************************)
\* localStorage.getItem of an absent key, and no request body in flight
NoContent == [some |-> FALSE, val |-> <<>>]
Content(v) == [some |-> TRUE, val |-> v]

\* elements.editor.value
Texts == UNION { [1..n -> {"a", "b"}] : n \in 0..MaxTextLen }

\* saveLocalDraft: the editor's content goes to local storage
saveLocalDraft(value) == Content(value)

\* clearLocalDraft: localStorage.removeItem
clearLocalDraft == NoContent

\* the user edits the text: onEditorInput
onEditorInput(v) ==
  /\ v # editorValue
  /\ editorValue' = v
  /\ isDirty' = TRUE
  /\ localDraft' = saveLocalDraft(v)
  /\ UNCHANGED <<isSaving, currentFilePath, saveInFlight, loadInFlight,
                 lastSynced, diskContent>>
  /\ UNCHANGED <<pathVars, coordVars, reqVars, envVars, callVars, rateVars,
                 sanVars>>

\* loadFile up to its await: the read request is sent
LoadStart ==
  /\ ~loadInFlight
  /\ loadInFlight' = TRUE
  /\ UNCHANGED <<editorValue, isDirty, isSaving, currentFilePath, localDraft,
                 saveInFlight, lastSynced, diskContent>>
  /\ UNCHANGED <<pathVars, coordVars, reqVars, envVars, callVars, rateVars,
                 sanVars>>

\* loadFile after its await: the response has the file's content, or it is
\* an error and nothing but the messages changes
LoadDone(ok) ==
  /\ loadInFlight
  /\ loadInFlight' = FALSE
  /\ IF ok
     THEN /\ currentFilePath' = TRUE
          /\ editorValue' = diskContent
          /\ isDirty' = FALSE
          /\ localDraft' = clearLocalDraft
          /\ lastSynced' = diskContent
     ELSE UNCHANGED <<currentFilePath, editorValue, isDirty, localDraft,
                      lastSynced>>
  /\ UNCHANGED <<isSaving, saveInFlight, diskContent>>
  /\ UNCHANGED <<pathVars, coordVars, reqVars, envVars, callVars, rateVars,
                 sanVars>>

\* saveFile up to its await: the editor's content is taken and sent
SaveStart ==
  /\ currentFilePath
  /\ ~isSaving
  /\ isSaving' = TRUE
  /\ saveInFlight' = Content(editorValue)
  /\ UNCHANGED <<editorValue, isDirty, currentFilePath, localDraft,
                 loadInFlight, lastSynced, diskContent>>
  /\ UNCHANGED <<pathVars, coordVars, reqVars, envVars, callVars, rateVars,
                 sanVars>>

\* saveFile after its await: on success the content sent is on disk, the
\* dirty flag is reset and the draft removed; finally isSaving is reset
SaveDone(ok) ==
  /\ saveInFlight.some
  /\ saveInFlight' = NoContent
  /\ isSaving' = FALSE
  /\ IF ok
     THEN /\ diskContent' = saveInFlight.val
          /\ isDirty' = FALSE
          /\ localDraft' = clearLocalDraft
          /\ lastSynced' = saveInFlight.val
     ELSE UNCHANGED <<diskContent, isDirty, localDraft, lastSynced>>
  /\ UNCHANGED <<editorValue, currentFilePath, loadInFlight>>
  /\ UNCHANGED <<pathVars, coordVars, reqVars, envVars, callVars, rateVars,
                 sanVars>>

\* clearEditor: with unsaved changes the user is asked first; the editor
\* starts afresh from the empty text
clearEditor(confirmed) ==
  /\ isDirty => confirmed
  /\ editorValue' = <<>>
  /\ currentFilePath' = FALSE
  /\ isDirty' = FALSE
  /\ localDraft' = clearLocalDraft
  /\ lastSynced' = <<>>
  /\ UNCHANGED <<isSaving, saveInFlight, loadInFlight, diskContent>>
  /\ UNCHANGED <<pathVars, coordVars, reqVars, envVars, callVars, rateVars,
                 sanVars>>

(***************************************************************************)
(* Instance coordination: the lock file                                    *)
(***************************************************************************)
\* the server processes started in the one working directory
Procs == {"p1", "p2"}
\* a process that is no server of this model and that a lock file may name
ExtPid == "ext"
NoPid == "none"

Ports == PORT..(PORT + MaxAttempts - 1)

\* the lock file: absent, unparseable, JSON without a pid, or a LockFileData
NoLock == [kind |-> "absent", pid |-> NoPid, port |-> 0]
CorruptLock == [kind |-> "corrupt", pid |-> NoPid, port |-> 0]
NoPidLock == [kind |-> "nopid", pid |-> NoPid, port |-> 0]
LockData(pid, prt) == [kind |-> "rec", pid |-> pid, port |-> prt]

NoReport == [pid |-> NoPid, port |-> 0]

\* a process with this id exists
Exists(pid) ==
  \/ pid \in Procs /\ pc[pid] # "exited"
  \/ pid = ExtPid /\ ext \in {"running", "foreign"}

\* process.kill(pid, 0) returns: the process exists and may be signalled
\* (it throws ESRCH for no such process, EPERM for another user's process,
\* and a TypeError for a pid that is no number)
KillZeroSucceeds(pid) ==
  \/ pid \in Procs /\ pc[pid] # "exited"
  \/ pid = ExtPid /\ ext = "running"

\* isProcessRunning: true unless process.kill threw
IsProcessRunning(pid) == KillZeroSucceeds(pid)

\* why a lock file passes for stale: it holds no pid, its process is gone
\* ("stale"), or its process exists and may not be signalled ("foreign")
Unreachable(lk) ==
  IF lk.kind = "nopid" THEN "nopid"
  ELSE IF Exists(lk.pid) THEN "foreign" ELSE "stale"

\* process.exit(code) of a process that registered no 'exit' handler, or
\* the end of a killed process: its socket closes with it
Ended(p, code) ==
  /\ pc' = [pc EXCEPT ![p] = "exited"]
  /\ exitCode' = [exitCode EXCEPT ![p] = code]
  /\ listening' = [listening EXCEPT ![p] = FALSE]

\* the catch of the start-up function: console.error, process.exit(1)
FailStartup(p, why, who) ==
  /\ Ended(p, "1")
  /\ startupError' = [startupError EXCEPT ![p] = why]
  /\ reported' = [reported EXCEPT ![p] = who]

\* the preliminary check: readFile, JSON.parse, isProcessRunning
PrelimCheck(p) ==
  /\ pc[p] = "start"
  /\ CASE lock.kind = "absent" ->
            /\ prelimSaw' = [prelimSaw EXCEPT ![p] = "absent"]
            /\ pc' = [pc EXCEPT ![p] = "bind"]
            /\ UNCHANGED <<warned, exitCode, listening, startupError, reported>>
       [] lock.kind = "corrupt" ->
            /\ prelimSaw' = [prelimSaw EXCEPT ![p] = "corrupt"]
            /\ warned' = [warned EXCEPT ![p] = TRUE]
            /\ pc' = [pc EXCEPT ![p] = "bind"]
            /\ UNCHANGED <<exitCode, listening, startupError, reported>>
       [] lock.kind \in {"nopid", "rec"} /\ ~IsProcessRunning(lock.pid) ->
            /\ prelimSaw' = [prelimSaw EXCEPT ![p] = Unreachable(lock)]
            /\ pc' = [pc EXCEPT ![p] = "bind"]
            /\ UNCHANGED <<warned, exitCode, listening, startupError, reported>>
       [] lock.kind = "rec" /\ IsProcessRunning(lock.pid) ->
            /\ prelimSaw' = [prelimSaw EXCEPT ![p] = "live"]
            /\ FailStartup(p, "Another instance is already running",
                           [pid |-> lock.pid, port |-> lock.port])
            /\ UNCHANGED warned
  /\ UNCHANGED <<lock, ext, portUse, attempt, port, acqSaw, releaseLog,
                 pathVars, reqVars, envVars,
                 moreVars>>

(***************************************************************************)
(* Port probing: startServerOnAvailablePort                                *)
(***************************************************************************)
\* faulty variant of CandidatePort: steps over every other port
CandidatePortSkipping(preferredPort, att) == preferredPort + 2 * att

\* const port = preferredPort + attempt
CandidatePort(preferredPort, att) == preferredPort + att

\* what app.listen(q) meets: "listening", "EADDRINUSE" or another error
\* (a port the loop never names, like a refused one, cannot be bound)
ListenResult(q) ==
  IF q \notin Ports \/ portUse[q] = "denied" THEN "EACCES"
  ELSE IF portUse[q] = "inuse" \/ (\E o \in Procs : listening[o] /\ port[o] = q)
       THEN "EADDRINUSE"
       ELSE "listening"

\* faulty variant of IsAddrInUse: any listen error moves on to the next port
AnyListenError(code) == code # "listening"

\* error.code === "EADDRINUSE"
IsAddrInUse(code) == code = "EADDRINUSE"

\* the loop goes on: attempt < maxAttempts - 1
MoreAttempts(att, maxAttempts) == att < maxAttempts - 1

\* one iteration of the loop of startServerOnAvailablePort(PORT)
ListenAttempt(p) ==
  /\ pc[p] = "bind"
  /\ LET q == CandidatePort(PORT, attempt[p])
         r == ListenResult(q)
     IN CASE r = "listening" ->
               /\ port' = [port EXCEPT ![p] = q]
               /\ listening' = [listening EXCEPT ![p] = TRUE]
               /\ pc' = [pc EXCEPT ![p] = "acq_read"]
               /\ UNCHANGED <<attempt, exitCode, startupError, reported>>
          [] r # "listening" /\ IsAddrInUse(r)
               /\ MoreAttempts(attempt[p], MaxAttempts) ->
               /\ attempt' = [attempt EXCEPT ![p] = @ + 1]
               /\ UNCHANGED <<port, listening, pc, exitCode, startupError, reported>>
          [] r # "listening" /\ IsAddrInUse(r)
               /\ ~MoreAttempts(attempt[p], MaxAttempts) ->
               /\ FailStartup(p, "Could not find an available port", NoReport)
               /\ UNCHANGED <<attempt, port>>
          [] r # "listening" /\ ~IsAddrInUse(r) ->
               /\ FailStartup(p, r, NoReport)
               /\ UNCHANGED <<attempt, port>>
  /\ UNCHANGED <<lock, ext, portUse, warned, prelimSaw, acqSaw, releaseLog,
                 pathVars, reqVars, envVars,
                 moreVars>>

(***************************************************************************)
(* acquireLock(port)                                                       *)
(***************************************************************************)
\* faulty variant of AcqRead: the process that finds a live lock removes the
\* lock file on its way out, as if its 'exit' handler were registered already
AcqReadClobbering(p) ==
  /\ pc[p] = "acq_read"
  /\ CASE lock.kind = "absent" ->
            /\ acqSaw' = [acqSaw EXCEPT ![p] = "absent"]
            /\ pc' = [pc EXCEPT ![p] = "acq_write"]
            /\ UNCHANGED <<lock, exitCode, listening, startupError, reported>>
       [] lock.kind = "corrupt" ->
            /\ acqSaw' = [acqSaw EXCEPT ![p] = "corrupt"]
            /\ FailStartup(p, "SyntaxError", NoReport)
            /\ UNCHANGED lock
       [] lock.kind \in {"nopid", "rec"} /\ ~IsProcessRunning(lock.pid) ->
            /\ acqSaw' = [acqSaw EXCEPT ![p] = Unreachable(lock)]
            /\ pc' = [pc EXCEPT ![p] = "acq_unlink"]
            /\ UNCHANGED <<lock, exitCode, listening, startupError, reported>>
       [] lock.kind = "rec" /\ IsProcessRunning(lock.pid) ->
            /\ acqSaw' = [acqSaw EXCEPT ![p] = "live"]
            /\ FailStartup(p, "Another instance is already running",
                           [pid |-> lock.pid, port |-> lock.port])
            /\ lock' = NoLock
  /\ UNCHANGED <<ext, portUse, attempt, port, warned, prelimSaw, releaseLog,
                 pathVars, reqVars, envVars,
                 moreVars>>

\* readFile, JSON.parse, isProcessRunning; anything thrown but ENOENT is
\* thrown on, to the catch of the start-up function
AcqRead(p) ==
  /\ pc[p] = "acq_read"
  /\ CASE lock.kind = "absent" ->
            /\ acqSaw' = [acqSaw EXCEPT ![p] = "absent"]
            /\ pc' = [pc EXCEPT ![p] = "acq_write"]
            /\ UNCHANGED <<exitCode, listening, startupError, reported>>
       [] lock.kind = "corrupt" ->
            /\ acqSaw' = [acqSaw EXCEPT ![p] = "corrupt"]
            /\ FailStartup(p, "SyntaxError", NoReport)
       [] lock.kind \in {"nopid", "rec"} /\ ~IsProcessRunning(lock.pid) ->
            /\ acqSaw' = [acqSaw EXCEPT ![p] = Unreachable(lock)]
            /\ pc' = [pc EXCEPT ![p] = "acq_unlink"]
            /\ UNCHANGED <<exitCode, listening, startupError, reported>>
       [] lock.kind = "rec" /\ IsProcessRunning(lock.pid) ->
            /\ acqSaw' = [acqSaw EXCEPT ![p] = "live"]
            /\ FailStartup(p, "Another instance is already running",
                           [pid |-> lock.pid, port |-> lock.port])
  /\ UNCHANGED <<lock, ext, portUse, attempt, port, warned, prelimSaw, releaseLog,
                 pathVars, reqVars, envVars,
                 moreVars>>

\* faulty variant of AcqUnlink: ENOENT from unlink is thrown on
AcqUnlinkStrict(p) ==
  /\ pc[p] = "acq_unlink"
  /\ IF lock.kind = "absent"
     THEN /\ FailStartup(p, "ENOENT", NoReport)
          /\ UNCHANGED lock
     ELSE /\ lock' = NoLock
          /\ pc' = [pc EXCEPT ![p] = "acq_write"]
          /\ UNCHANGED <<listening, exitCode, startupError, reported>>
  /\ UNCHANGED <<ext, portUse, attempt, port, warned, prelimSaw, acqSaw, releaseLog,
                 pathVars, reqVars, envVars,
                 moreVars>>

\* await fs.unlink(LOCK_FILE_PATH) of the stale lock; ENOENT is swallowed
AcqUnlink(p) ==
  /\ pc[p] = "acq_unlink"
  /\ lock' = NoLock
  /\ pc' = [pc EXCEPT ![p] = "acq_write"]
  /\ UNCHANGED <<ext, portUse, attempt, port, listening, exitCode, startupError,
                 reported, warned, prelimSaw, acqSaw, releaseLog,
                 pathVars, reqVars, envVars,
                 moreVars>>

\* faulty variant of NewLockData: records the preferred port, not the bound one
NewLockDataPreferred(p, prt) == LockData(p, PORT)

\* the record acquireLock writes: { pid: process.pid, port, ... }
NewLockData(p, prt) == LockData(p, prt)

\* await fs.writeFile(LOCK_FILE_PATH, ...); the start-up function then
\* registers the signal and 'exit' handlers
AcqWrite(p) ==
  /\ pc[p] = "acq_write"
  /\ lock' = NewLockData(p, port[p])
  /\ pc' = [pc EXCEPT ![p] = "running"]
  /\ UNCHANGED <<ext, portUse, attempt, port, listening, exitCode, startupError,
                 reported, warned, prelimSaw, acqSaw, releaseLog,
                 pathVars, reqVars, envVars,
                 moreVars>>

(***************************************************************************)
(* Shutdown                                                                *)
(***************************************************************************)
\* SIGTERM or SIGINT reaches a running server: gracefulShutdown starts
Signal(p) ==
  /\ pc[p] = "running"
  /\ pc' = [pc EXCEPT ![p] = "shutdown"]
  /\ UNCHANGED <<lock, ext, portUse, attempt, port, listening, exitCode,
                 startupError, reported, warned, prelimSaw, acqSaw, releaseLog,
                 pathVars, reqVars, envVars,
                 moreVars>>

\* fs.unlink(LOCK_FILE_PATH) of releaseLock and of the 'exit' handler,
\* when it succeeds: whatever the file holds, it is removed
UnlinkLock(p, lk) == NoLock

\* how the unlink of the lock file can end: ENOENT when there is no file,
\* else done ("none") or refused by the filesystem
UnlinkErrors(lk) ==
  IF lk.kind = "absent" THEN {"ENOENT"} ELSE {"none", "EACCES"}

\* what releaseLock logs
ReleaseMessage(err) ==
  CASE err = "none" -> "Lock file removed"
    [] err = "ENOENT" -> "silent"
    [] OTHER -> "Failed to remove lock file"

\* faulty variant of AfterRelease: an error other than ENOENT is thrown on,
\* and gracefulShutdown stops before server.close and the timer
AfterReleaseRethrown(err) ==
  IF err \in {"none", "ENOENT"} THEN "released" ELSE "rejected"

\* releaseLock catches whatever unlink throws: gracefulShutdown goes on
AfterRelease(err) == "released"

\* await releaseLock()
ReleaseLock(p) ==
  /\ pc[p] = "shutdown"
  /\ \E err \in UnlinkErrors(lock) :
       /\ lock' = IF err = "none" THEN UnlinkLock(p, lock) ELSE lock
       /\ releaseLog' = [releaseLog EXCEPT ![p] = ReleaseMessage(err)]
       /\ pc' = [pc EXCEPT ![p] = AfterRelease(err)]
  /\ UNCHANGED <<ext, portUse, attempt, port, listening, exitCode, startupError,
                 reported, warned, prelimSaw, acqSaw, pathVars, reqVars, envVars,
                 moreVars>>

\* server.close(callback) and the 30 s timer: the socket stops listening,
\* the open connections go on
CloseServer(p) ==
  /\ pc[p] = "released"
  /\ listening' = [listening EXCEPT ![p] = FALSE]
  /\ pc' = [pc EXCEPT ![p] = "draining"]
  /\ UNCHANGED <<lock, ext, portUse, attempt, port, exitCode, startupError,
                 reported, warned, prelimSaw, acqSaw, releaseLog,
                 pathVars, reqVars, envVars,
                 moreVars>>

\* process.exit(code) after start-up: the 'exit' handler removes the lock
\* file if it exists; what unlinkSync throws is ignored
ExitWithHandler(p, code) ==
  /\ \E err \in UnlinkErrors(lock) :
       lock' = IF err = "none" THEN UnlinkLock(p, lock) ELSE lock
  /\ Ended(p, code)

\* the callback of server.close: every connection has ended, process.exit(0)
DrainDone(p) ==
  /\ pc[p] = "draining"
  /\ ExitWithHandler(p, "0")
  /\ UNCHANGED <<ext, portUse, attempt, port, startupError, reported, warned,
                 prelimSaw, acqSaw, releaseLog,
                 pathVars, reqVars, envVars,
                 moreVars>>

\* the 30 s timer fires first: process.exit(1)
ForceExit(p) ==
  /\ pc[p] = "draining"
  /\ ExitWithHandler(p, "1")
  /\ UNCHANGED <<ext, portUse, attempt, port, startupError, reported, warned,
                 prelimSaw, acqSaw, releaseLog,
                 pathVars, reqVars, envVars,
                 moreVars>>

\* the process is killed (SIGKILL, power loss): no handler runs
Crash(p) ==
  /\ pc[p] \notin {"start", "exited"}
  /\ Ended(p, "killed")
  /\ UNCHANGED <<lock, ext, portUse, attempt, port, startupError, reported,
                 warned, prelimSaw, acqSaw, releaseLog,
                 pathVars, reqVars, envVars,
                 moreVars>>

\* the process a lock file names, not a server of this model, ends
ExtExit ==
  /\ ext \in {"running", "foreign"}
  /\ ext' = "dead"
  /\ UNCHANGED <<lock, portUse, pc, attempt, port, listening, exitCode,
                 startupError, reported, warned, prelimSaw, acqSaw, releaseLog,
                 pathVars, reqVars, envVars,
                 moreVars>>

(***************************************************************************)
(* Specifications                                                          *)
(***************************************************************************)
\* no server process has been started yet
ProcsAtStart ==
  /\ pc = [p \in Procs |-> "start"]
  /\ attempt = [p \in Procs |-> 0]
  /\ port = [p \in Procs |-> 0]
  /\ listening = [p \in Procs |-> FALSE]
  /\ exitCode = [p \in Procs |-> "none"]
  /\ startupError = [p \in Procs |-> "none"]
  /\ reported = [p \in Procs |-> NoReport]
  /\ warned = [p \in Procs |-> FALSE]
  /\ prelimSaw = [p \in Procs |-> "none"]
  /\ acqSaw = [p \in Procs |-> "none"]
  /\ releaseLog = [p \in Procs |-> "none"]

\* validateFilePath is called once and no save is under way, no request
\* has reached the rate limiter, and the editor page was opened with no
\* draft in local storage
MoreQuiet ==
  /\ calls = 1
  /\ prevPath = <<>>
  /\ prevDecision = NoDecision
  /\ fsAtStart = <<fsKind, fsSize>>
  /\ written = NoPayload
  /\ now = 0
  /\ rateLimitStore = [ip \in Ips |-> NoRecord]
  /\ passed = [ip \in Ips |-> <<>>]
  /\ rejected = [ip \in Ips |-> <<>>]
  /\ editorValue = <<>>
  /\ isDirty = FALSE
  /\ isSaving = FALSE
  /\ currentFilePath = FALSE
  /\ localDraft = NoContent
  /\ saveInFlight = NoContent
  /\ loadInFlight = FALSE
  /\ lastSynced = <<>>
  /\ diskContent = <<>>

\* sanitizeFileContent is not being called
SanQuiet ==
  /\ sanInput = JsOther("undefined")
  /\ sanOutput = <<>>

\* the configuration was loaded before the parts of the model that take
\* the policy as given
EnvQuiet ==
  /\ envDirs = Unset
  /\ envMaxSize = Unset
  /\ spc = "loaded"
  /\ loadExit = "none"

\* no request is being handled
ReqQuiet ==
  /\ endpoint = "read"
  /\ bodyPath = JsOther("undefined")
  /\ bodyContent = JsOther("undefined")
  /\ fsAccess = TRUE
  /\ fsFault = FALSE
  /\ hpc = "idle"
  /\ response = NoResponse
  /\ securityLog = <<>>
  /\ touched = {}

\* the admission check is not running
PathQuiet ==
  /\ filePath = <<Slash>>
  /\ config \in { c \in Configs : Len(c.allowedDirectories) = 1 }
  /\ fsKind = "none"
  /\ fsSize = 0
  /\ vpc = "done"
  /\ decision = NoDecision

\* every way the ports can be taken outside the model
AllPortUses == [Ports -> {"free", "inuse", "denied"}]

\* a few of them: all free, the preferred port taken, all taken, the
\* preferred port refused
SomePortUses ==
  { [q \in Ports |-> "free"],
    [q \in Ports |-> IF q = PORT THEN "inuse" ELSE "free"],
    [q \in Ports |-> "inuse"],
    [q \in Ports |-> IF q = PORT THEN "denied" ELSE "free"] }

\* the lock files a start-up can find: none, a broken one, one left by a
\* process outside the model, which may still run
Init ==
  /\ lock \in {NoLock, CorruptLock, NoPidLock, LockData(ExtPid, PORT)}
  /\ ext \in (IF lock.pid = ExtPid THEN {"running", "foreign", "dead"} ELSE {"dead"})
  /\ portUse \in SomePortUses
  /\ ProcsAtStart
  /\ PathQuiet
  /\ ReqQuiet
  /\ EnvQuiet
  /\ MoreQuiet
  /\ SanQuiet

Next ==
  \/ \E p \in Procs :
       \/ PrelimCheck(p)
       \/ ListenAttempt(p)
       \/ AcqRead(p)
       \/ AcqUnlink(p)
       \/ AcqWrite(p)
       \/ Signal(p)
       \/ ReleaseLock(p)
       \/ CloseServer(p)
       \/ DrainDone(p)
       \/ ForceExit(p)
       \/ Crash(p)
  \/ ExtExit

Spec == Init /\ [][Next]_vars

\* what a signalled process is bound to do: the unlink of releaseLock
\* returns, server.close is called right after it, and the 30 s timer
\* fires unless the process has exited before; that the connections ever
\* drain is not assumed
ShutdownFairness ==
  \A p \in Procs :
    /\ WF_vars(ReleaseLock(p))
    /\ WF_vars(CloseServer(p))
    /\ WF_vars(ForceExit(p))

FairSpec == Init /\ [][Next]_vars /\ ShutdownFairness

\* port probing against every way the ports can be taken, no lock file
PortInit ==
  /\ lock = NoLock
  /\ ext \in {"running", "dead"}
  /\ portUse \in AllPortUses
  /\ ProcsAtStart
  /\ PathQuiet
  /\ ReqQuiet
  /\ EnvQuiet
  /\ MoreQuiet
  /\ SanQuiet

PortSpec == PortInit /\ [][Next]_vars

\* the coordinator is not part of the admission check
CoordQuiet ==
  /\ lock = NoLock
  /\ ext = "dead"
  /\ portUse = [q \in Ports |-> "free"]
  /\ ProcsAtStart

PathInit ==
  /\ filePath \in RawPaths
  /\ config \in Configs
  /\ fsKind \in {"none", "file", "dir"}
  /\ fsSize \in (IF fsKind = "file" THEN {0, MaxFileSize, MaxFileSize + 1} ELSE {0})
  /\ vpc = "start"
  /\ decision = NoDecision
  /\ CoordQuiet
  /\ ReqQuiet
  /\ EnvQuiet
  /\ MoreQuiet
  /\ SanQuiet

PathNext == ExistsCheck \/ StatAndDecide \/ FsUnlink

PathSpec == PathInit /\ [][PathNext]_vars

\* the admission check called twice, for the named paths and two relative
\* ones
TwiceInit ==
  /\ filePath \in NamedPaths
                   \cup { <<Dot, Dot, Slash, "s", Slash, "x", Dot, "m", "d">>,
                          <<"s", Slash, "x", Dot, "m", "d">> }
  /\ config \in Configs
  /\ fsKind \in {"none", "file", "dir"}
  /\ fsSize \in (IF fsKind = "file" THEN {0, MaxFileSize, MaxFileSize + 1} ELSE {0})
  /\ vpc = "start"
  /\ decision = NoDecision
  /\ CoordQuiet
  /\ ReqQuiet
  /\ EnvQuiet
  /\ MoreQuiet
  /\ SanQuiet

TwiceNext == ExistsCheck \/ StatAndDecide \/ FsUnlink \/ CallAgain

TwiceSpec == TwiceInit /\ [][TwiceNext]_vars

\* the admission check on the named paths
NameInit ==
  /\ filePath \in NamedPaths
  /\ config \in Configs
  /\ fsKind \in {"none", "file", "dir"}
  /\ fsSize \in (IF fsKind = "file" THEN {0, MaxFileSize, MaxFileSize + 1} ELSE {0})
  /\ vpc = "start"
  /\ decision = NoDecision
  /\ CoordQuiet
  /\ ReqQuiet
  /\ EnvQuiet
  /\ MoreQuiet
  /\ SanQuiet

NameSpec == NameInit /\ [][PathNext]_vars

\* one request, from its arrival to the response
ServeInit ==
  /\ endpoint \in {"read", "save"}
  /\ bodyPath \in BodyPaths
  /\ bodyContent \in (IF endpoint = "save" THEN BodyContents
                                           ELSE {JsOther("undefined")})
  /\ config \in Configs
  /\ fsKind \in {"none", "file", "dir"}
  /\ fsSize \in (IF fsKind = "file" THEN {0, MaxFileSize, MaxFileSize + 1} ELSE {0})
  /\ fsAccess \in BOOLEAN
  /\ fsFault \in BOOLEAN
  /\ filePath = <<Slash>>
  /\ vpc = "done"
  /\ decision = NoDecision
  /\ hpc = "input"
  /\ response = NoResponse
  /\ securityLog = <<>>
  /\ touched = {}
  /\ CoordQuiet
  /\ EnvQuiet
  /\ MoreQuiet
  /\ SanQuiet

ServeNext ==
  \/ ReqValidateInput
  \/ ExistsCheck
  \/ StatAndDecide
  \/ FsUnlink
  \/ ReqAdmitted
  \/ ReqAccess
  \/ ReqIo

ServeSpec == ServeInit /\ [][ServeNext]_vars

\* the requests of two clients in the course of time
RateInit ==
  /\ PathQuiet
  /\ CoordQuiet
  /\ ReqQuiet
  /\ EnvQuiet
  /\ MoreQuiet
  /\ SanQuiet

RateNext == Tick \/ \E ip \in Ips : RateLimit(ip)

RateSpec == RateInit /\ [][RateNext]_vars

\* the editor page, opened with no draft, and an empty file on the server
EditorInit ==
  /\ PathQuiet
  /\ CoordQuiet
  /\ ReqQuiet
  /\ EnvQuiet
  /\ MoreQuiet
  /\ SanQuiet

EditorNext ==
  \/ \E v \in Texts : onEditorInput(v)
  \/ LoadStart
  \/ \E ok \in BOOLEAN : LoadDone(ok)
  \/ SaveStart
  \/ \E ok \in BOOLEAN : SaveDone(ok)
  \/ \E confirmed \in BOOLEAN : clearEditor(confirmed)

EditorSpec == EditorInit /\ [][EditorNext]_vars

\* sanitizeFileContent on the contents of files
SanitizeInit ==
  /\ sanInput \in { JsString(c) :
                      c \in UNION { [1..n -> {BOM, NUL, "a"}] : n \in 0..MaxContentLen } }
                  \cup { JsOther("undefined") }
  /\ sanOutput = <<>>
  /\ PathQuiet
  /\ CoordQuiet
  /\ ReqQuiet
  /\ EnvQuiet
  /\ MoreQuiet

SanitizeSpec == SanitizeInit /\ [][Sanitize]_vars

\* the loading of the configuration, for the values of the two variables
ConfigInit ==
  /\ envDirs \in EnvDirChoices
  /\ envMaxSize \in EnvSizeChoices
  /\ spc = "load"
  /\ loadExit = "none"
  /\ config = NoConfig
  /\ filePath = <<Slash>>
  /\ fsKind = "none"
  /\ fsSize = 0
  /\ vpc = "done"
  /\ decision = NoDecision
  /\ CoordQuiet
  /\ ReqQuiet
  /\ MoreQuiet
  /\ SanQuiet

ConfigSpec == ConfigInit /\ [][LoadConfig]_vars


(***************************************************************************)
(* Claims about the admission check                                        *)
(***************************************************************************)
\* the policy's normalized allowed directories
NormalizedAllowedDirs(cfg) ==
  { Normalize(Resolve(cfg.allowedDirectories[i])) :
      i \in 1..Len(cfg.allowedDirectories) }

\* np lies inside an allowed directory: below it, behind a path separator
InsideAllowed(np, cfg) ==
  \E d \in NormalizedAllowedDirs(cfg) : StartsWith(np, d \o <<Slash>>)

\* np has an allowed directory as a raw string prefix
RawPrefixOfAllowed(np, cfg) ==
  \E d \in NormalizedAllowedDirs(cfg) : StartsWith(np, d)

HasDotDot(p) == Includes(Split(p, Slash), <<Dot, Dot>>)

\* C1: an existing regular file whose normalized path has an allowed
\* directory as a raw string prefix, but lies inside no allowed directory,
\* is denied, whatever its extension and size.
C1_PrefixBoundary ==
  ( /\ vpc = "done"
    /\ fsKind = "file"
    /\ RawPrefixOfAllowed(NormalizedPath(filePath), config)
    /\ ~InsideAllowed(NormalizedPath(filePath), config) )
  => ~decision.valid

\* C1, the failing input: /s-o/x.md, a small regular file next to the
\* allowed directory /s, is admitted.
C1_SiblingAllowed ==
  /\ vpc = "done"
  /\ fsKind = "file"
  /\ filePath = <<Slash, "s", "-", "o", Slash, "x", Dot, "m", "d">>
  /\ config.allowedDirectories = << <<Slash, "s">> >>
  /\ decision.valid

\* C2: a raw path with ".." segments whose normalized form lies outside
\* every allowed directory is denied with "File is outside allowed
\* directories", whatever the filesystem holds there, and is never allowed.
C2_TraversalDenied ==
  ( /\ vpc = "done"
    /\ HasDotDot(filePath)
    /\ ~InsideAllowed(NormalizedPath(filePath), config) )
  => /\ ~decision.valid
     /\ decision.error = "File is outside allowed directories"

\* C2, the failing input: /s/../s-o/x.md normalizes to /s-o/x.md, outside
\* the allowed directory /s, and is admitted.
C2_TraversalAllowed ==
  /\ vpc = "done"
  /\ filePath = <<Slash, "s", Slash, Dot, Dot, Slash, "s", "-", "o", Slash,
                  "x", Dot, "m", "d">>
  /\ config.allowedDirectories = << <<Slash, "s">> >>
  /\ NormalizedPath(filePath) = <<Slash, "s", "-", "o", Slash, "x", Dot, "m", "d">>
  /\ decision.valid


(***************************************************************************)
(* Claims about instance coordination                                      *)
(***************************************************************************)
\* the process has completed start-up and its socket is listening
Serving(p) == pc[p] \in {"running", "shutdown", "released"} /\ listening[p]

PortErrors == {"Could not find an available port", "EACCES"}

\* C3: at most one live process at a time has completed start-up and is
\* listening; two processes never both serve from the working directory.
C3_SingleInstance ==
  \A p \in Procs : \A o \in Procs \ {p} : ~(Serving(p) /\ Serving(o))

\* C3, the failing state: both processes run and listen, the lock file
\* names one of them.
C3_TwoServing ==
  /\ \A p \in Procs : pc[p] = "running" /\ listening[p]
  /\ lock.kind = "rec"
  /\ port["p1"] # port["p2"]

\* C4: a preliminary check that finds a lock record whose process exists
\* ends the start-up with exit code 1 and reports that process's id and port.
C4_LiveLockFatal ==
  [][ \A p \in Procs :
        ( /\ pc[p] = "start"
          /\ pc'[p] # "start"
          /\ lock.kind = "rec"
          /\ Exists(lock.pid) )
        => /\ pc'[p] = "exited"
           /\ exitCode'[p] = "1"
           /\ reported'[p] = [pid |-> lock.pid, port |-> lock.port] ]_vars

\* C4, the failing state: the lock names a running process of another
\* user, and a server started beside it runs.
C4_StartedBesideLiveLock ==
  \E p \in Procs :
    /\ ext = "foreign"
    /\ prelimSaw[p] = "foreign"
    /\ pc[p] = "running"
    /\ lock = LockData(p, port[p])

C6_CorruptLockIgnored ==
  \A p \in Procs :
    (prelimSaw[p] = "corrupt" /\ acqSaw[p] = "corrupt") => startupError[p] = "none"

\* C6, the failing state: the warning was logged, a port was bound, and
\* the process exited with code 1 on the SyntaxError of acquireLock.
C6_CorruptLockFatal ==
  \E p \in Procs :
    /\ prelimSaw[p] = "corrupt"
    /\ warned[p]
    /\ port[p] \in Ports
    /\ pc[p] = "exited"
    /\ exitCode[p] = "1"
    /\ startupError[p] = "SyntaxError"
    /\ lock = CorruptLock

\* C7: a lock record that names a server process names the port that
\* process bound: it was written after the socket was listening, and no
\* record advertises a port its writer never acquired.
C7_LockAfterListen ==
  \A p \in Procs :
    /\ (lock.kind = "rec" /\ lock.pid = p) => (port[p] \in Ports /\ lock.port = port[p])
    /\ pc[p] \in {"acq_read", "acq_unlink", "acq_write"} => (listening[p] /\ port[p] \in Ports)

\* C7, the case: a record names a listening process and a port other than
\* the preferred one.
C7_LockNamesBoundPort ==
  \E p \in Procs :
    /\ lock = LockData(p, port[p])
    /\ listening[p]
    /\ port[p] # PORT

\* C8: the port a process binds lies in PORT..PORT+MaxAttempts-1, is free
\* outside the model, and every lower candidate was in use: taken outside
\* the model or bound by the other process.
C8_SmallestFreePort ==
  \A p \in Procs :
    port[p] # 0 =>
      /\ port[p] \in Ports
      /\ portUse[port[p]] = "free"
      /\ \A q \in PORT..(port[p] - 1) :
           \/ portUse[q] = "inuse"
           \/ \E o \in Procs \ {p} : port[o] = q

\* C8, the case: the first three ports are taken, the fourth is free and
\* is the one bound.
C8_FourthPortBound ==
  \E p \in Procs :
    /\ \A q \in PORT..(PORT + 2) : portUse[q] = "inuse"
    /\ portUse[PORT + 3] = "free"
    /\ listening[p]
    /\ port[p] = PORT + 3

\* C9: the loop moves past a port only on EADDRINUSE; any other listen
\* error ends the start-up at that port with exit code 1; MaxAttempts ports
\* in use end it with exit code 1; neither writes a lock record.
C9_PortProbeFailures ==
  \A p \in Procs :
    /\ \A q \in PORT..(PORT + attempt[p] - 1) :
         \/ portUse[q] = "inuse"
         \/ portUse[q] = "free" /\ \E o \in Procs \ {p} : port[o] = q
    /\ startupError[p] = "EACCES" =>
         /\ portUse[PORT + attempt[p]] = "denied"
         /\ pc[p] = "exited" /\ exitCode[p] = "1"
    /\ startupError[p] = "Could not find an available port" =>
         /\ attempt[p] = MaxAttempts - 1
         /\ \/ portUse[PORT + attempt[p]] = "inuse"
            \/ \E o \in Procs \ {p} : port[o] = PORT + attempt[p]
         /\ pc[p] = "exited" /\ exitCode[p] = "1"
    /\ startupError[p] \in PortErrors =>
         /\ port[p] = 0
         /\ acqSaw[p] = "none"
         /\ ~(lock.kind = "rec" /\ lock.pid = p)

\* C9, the case: every port was in use and the start-up ended with exit
\* code 1 after MaxAttempts attempts.
C9_PortsExhausted ==
  \E p \in Procs :
    /\ startupError[p] = "Could not find an available port"
    /\ attempt[p] = MaxAttempts - 1
    /\ exitCode[p] = "1"
    /\ \A q \in Ports : portUse[q] = "inuse"

\* C10: releaseLock and the 'exit' handler never delete a lock record that
\* names another live process.
C10_ReleaseOnlyOwnLock ==
  [][ \A p \in Procs :
        ( /\ \/ pc[p] = "shutdown" /\ pc'[p] = "released"
             \/ pc[p] = "draining" /\ pc'[p] = "exited" /\ exitCode'[p] # "killed"
          /\ lock.kind = "rec"
          /\ lock.pid # p
          /\ Exists(lock.pid) )
        => lock' = lock ]_vars

\* C10, the failing state: one process shut down, the other then bound the
\* port it gave up and wrote its lock record; the 'exit' handler of the
\* first removed that record, and the second still runs.
C10_LockOfRunningProcessGone ==
  \E p \in Procs : \E o \in Procs \ {p} :
    /\ pc[p] = "exited" /\ exitCode[p] = "0"
    /\ pc[o] = "running" /\ listening[o]
    /\ port[o] = port[p]
    /\ lock = NoLock

\* C11: the shutdown sequence removes the lock file only once the process
\* has stopped listening: releaseLock never runs on a listening socket, and
\* a process that completed start-up and still listens has not run it.
C11_LockOutlivesListening ==
  [][ \A p \in Procs :
        (pc[p] = "shutdown" /\ pc'[p] = "released") => ~listening[p] ]_vars

\* C11, the failing state: the signalled process released the lock and
\* still listens; a start-up beside it that found no lock file is probing
\* ports.
C11_LockGoneWhileListening ==
  \E p \in Procs : \E o \in Procs \ {p} :
    /\ pc[p] = "released"
    /\ listening[p]
    /\ lock = NoLock
    /\ prelimSaw[p] = "absent" /\ acqSaw[p] = "absent"
    /\ prelimSaw[o] = "absent"
    /\ pc[o] = "bind"
    /\ attempt[o] = 1

\* C12: a process that received SIGTERM or SIGINT eventually exits,
\* whether the lock file could be removed or not; a failed removal leaves
\* the process past releaseLock, and the exit after a signal has code 0
\* (drained) or 1 (forced) unless the process was killed.
C12_ShutdownTerminates ==
  /\ \A p \in Procs : (pc[p] = "shutdown") ~> (pc[p] = "exited")
  /\ [] ( \A p \in Procs :
            releaseLog[p] # "none" =>
              /\ pc[p] \in {"released", "draining", "exited"}
              /\ pc[p] = "exited" => exitCode[p] \in {"0", "1", "killed"} )

\* C12, the case: the lock file could not be removed, by releaseLock or
\* by the 'exit' handler, and the process exited with code 0 all the same.
C12_ExitedDespiteLockFile ==
  \E p \in Procs :
    /\ releaseLog[p] = "Failed to remove lock file"
    /\ pc[p] = "exited"
    /\ exitCode[p] = "0"
    /\ lock = LockData(p, port[p])

\* C20: isProcessRunning(pid) is true exactly when a process with that id
\* exists, whether the caller may signal it or not, and no lock file whose
\* process exists is ever taken for stale.
C20_ProbeReportsExistence ==
  /\ \A pid \in Procs \cup {ExtPid} : IsProcessRunning(pid) <=> Exists(pid)
  /\ \A p \in Procs : prelimSaw[p] # "foreign" /\ acqSaw[p] # "foreign"

\* C20, the failing state: the lock named a running process of another
\* user; the probe reported it as not running, and acquireLock removed
\* its lock file as stale.
C20_LiveLockTakenForStale ==
  \E p \in Procs :
    /\ ext = "foreign"
    /\ Exists(ExtPid)
    /\ ~IsProcessRunning(ExtPid)
    /\ acqSaw[p] = "foreign"
    /\ pc[p] = "acq_write"
    /\ lock = NoLock

(***************************************************************************)
(* Claims about the extension and size checks                              *)
(***************************************************************************)
\* the final segment of a path
LastSegment(np) ==
  LET segs == Split(np, Slash) IN segs[Len(segs)]

\* the extension of a file name: the text after its last dot; none when
\* the name has no dot, ends in a dot, or is a dot-file (one leading dot)
SegmentExtension(name) ==
  LET parts == Split(name, Dot)
  IN IF Len(parts) = 1 THEN <<>>
     ELSE IF Len(parts) = 2 /\ parts[1] = <<>> THEN <<>>
     ELSE parts[Len(parts)]

\* the final segment's extension, lowercased, is on the allow-list
HasAllowedExtension(np, cfg) ==
  Includes(cfg.allowedExtensions, ToLowerCase(SegmentExtension(LastSegment(np))))

\* C13: an existing regular file inside an allowed directory is denied with
\* "File extension is not allowed" exactly when the extension of its final
\* segment, lowercased, is not on the allow-list.
C13_ExtensionOfFinalSegment ==
  ( /\ vpc = "done"
    /\ fsKind = "file"
    /\ InsideAllowed(NormalizedPath(filePath), config) )
  => ( decision.error = "File extension is not allowed"
         <=> ~HasAllowedExtension(NormalizedPath(filePath), config) )

\* C13, the failing input: /s/.md, a dot-file without extension inside the
\* allowed directory /s, is admitted.
C13_DotFileAllowed ==
  /\ vpc = "done"
  /\ fsKind = "file"
  /\ filePath = <<Slash, "s", Slash, Dot, "m", "d">>
  /\ InsideAllowed(NormalizedPath(filePath), config)
  /\ SegmentExtension(LastSegment(NormalizedPath(filePath))) = <<>>
  /\ decision.valid

\* C14: an existing regular file inside an allowed directory with an
\* allowed extension is denied with "File size exceeds maximum allowed
\* size" when its size is greater than maxFileSize, and allowed otherwise.
C14_SizeLimit ==
  ( /\ vpc = "done"
    /\ fsKind = "file"
    /\ InsideAllowed(NormalizedPath(filePath), config)
    /\ HasAllowedExtension(NormalizedPath(filePath), config) )
  => IF fsSize > config.maxFileSize.v
     THEN /\ ~decision.valid
          /\ decision.error = "File size exceeds maximum allowed size"
     ELSE decision = Allow

\* C14, the case: a file of exactly maxFileSize bytes is allowed.
C14_FileAtLimitAllowed ==
  /\ vpc = "done"
  /\ fsKind = "file"
  /\ fsSize = config.maxFileSize.v
  /\ HasAllowedExtension(NormalizedPath(filePath), config)
  /\ decision = Allow

(***************************************************************************)
(* Claims about the request handlers                                       *)
(***************************************************************************)
\* the request's path passed the input check and is the one admission saw
InputPassed ==
  /\ ~validateFilePathInput(bodyPath).isNull
  /\ filePath = validateFilePathInput(bodyPath).val

\* the reasons for which validateFilePath denies a path it could examine
PolicyDenials ==
  { "File does not exist", "Path is not a file",
    "File is outside allowed directories", "File extension is not allowed",
    "File size exceeds maximum allowed size" }

\* C15: a handler calls fs.access, readFile or writeFile on the target only
\* after validateFilePathInput returned a path and validateFilePath allowed
\* it; a request that failed either check has touched nothing.
C15_AdmissionBeforeDisk ==
  /\ (touched # {} \/ hpc \in {"access", "io"}) =>
       (InputPassed /\ vpc = "done" /\ decision.valid)
  /\ ( hpc = "done"
       /\ (validateFilePathInput(bodyPath).isNull \/ ~decision.valid) )
     => touched = {}

\* C15, the case: an admitted read went through the access check and
\* readFile.
C15_ReadAfterAdmission ==
  /\ endpoint = "read"
  /\ InputPassed
  /\ decision.valid
  /\ touched = {"access", "readFile"}
  /\ response = Success

\* C16: a malformed input gives 400, a denial by policy 403, a failure
\* inside validateFilePath 500, a failing readFile or writeFile 500.
C16_StatusCodes ==
  hpc = "done" =>
    /\ validateFilePathInput(bodyPath).isNull => response.status = 400
    /\ (InputPassed /\ decision.error \in PolicyDenials) => response.status = 403
    /\ (InputPassed /\ decision.error = "Path validation error")
         => response.status = 500
    /\ ("readFile" \in touched /\ (fsKind = "none" \/ fsFault))
         => response.status = 500
    /\ ("writeFile" \in touched /\ fsFault) => response.status = 500

\* C16, the failing state: statSync threw inside validateFilePath, the
\* file having vanished after existsSync, and the response is 403.
C16_ValidationFailureDenied ==
  /\ hpc = "done"
  /\ InputPassed
  /\ decision.error = "Path validation error"
  /\ decision.detail[1] = "ENOENT"
  /\ response = Respond(403, "Access denied")

\* C17: every request that validateFilePath denied gets the one response
\* 403 "Access denied", which is not the reason of the denial, whatever
\* that reason is.
C17_UniformDenial ==
  (hpc = "done" /\ InputPassed /\ ~decision.valid)
  => /\ response = Respond(403, "Access denied")
     /\ response.error # decision.error
     /\ securityLog # <<>>
     /\ securityLog[Len(securityLog)].error = decision.error

\* C17, the case: a save denied for the size of the target file is
\* answered like any other denial, the reason going to the log.
C17_TooLargeDeniedAlike ==
  /\ hpc = "done"
  /\ endpoint = "save"
  /\ decision.error = "File size exceeds maximum allowed size"
  /\ response = Respond(403, "Access denied")
  /\ securityLog[1].error = decision.error

\* the input is no string, is empty, is longer than the limit, or holds a
\* null byte, a carriage return or a line feed somewhere
Malformed(input) ==
  \/ input.type # "string"
  \/ Len(input.val) = 0
  \/ Len(input.val) > MaxPathLength
  \/ \E i \in 1..Len(input.val) : input.val[i] \in {NUL, CR, LF}

\* C18: a malformed input is answered with 400 and validateFilePath is
\* never entered for it.
C18_MalformedInputRejected ==
  (hpc # "input" /\ Malformed(bodyPath))
  => /\ validateFilePathInput(bodyPath).isNull
     /\ response = Respond(400, "Invalid file path format")
     /\ decision = NoDecision

\* C18, the failing input: "/s/x.md" followed by a line feed passes the
\* input check, is admitted and read.
C18_TrailingNewlineAdmitted ==
  /\ bodyPath = JsString(<<Slash, "s", Slash, "x", Dot, "m", "d", LF>>)
  /\ Malformed(bodyPath)
  /\ hpc = "done"
  /\ filePath = <<Slash, "s", Slash, "x", Dot, "m", "d">>
  /\ decision.valid
  /\ response = Success

(***************************************************************************)
(* Claims about the configuration                                          *)
(***************************************************************************)
\* C19: the loading either ends the process with exit code 1 or yields a
\* policy with at least one allowed directory, none of them blank or
\* untrimmed, and a maxFileSize that is a positive integer.
C19_PolicyInvariants ==
  /\ spc = "exited" => loadExit = "1"
  /\ spc = "loaded" =>
       /\ Len(config.allowedDirectories) >= 1
       /\ \A i \in 1..Len(config.allowedDirectories) :
            /\ config.allowedDirectories[i] # <<>>
            /\ Trim(config.allowedDirectories[i]) = config.allowedDirectories[i]
       /\ ~config.maxFileSize.nan
       /\ config.maxFileSize.v > 0

\* C19, the failing input: MAX_FILE_SIZE=abc with ALLOWED_DIRECTORIES=/s
\* loads a policy whose maxFileSize is NaN, which no file size exceeds.
C19_MaxFileSizeNaN ==
  /\ envDirs = EnvVal(<<Slash, "s">>)
  /\ envMaxSize = EnvVal(<<"a", "b", "c">>)
  /\ spc = "loaded"
  /\ config.allowedDirectories = << <<Slash, "s">> >>
  /\ config.maxFileSize = NaN
  /\ \A size \in 0..(MaxFileSize + 1) : ~SizeExceeds(size, config.maxFileSize)

(***************************************************************************)
(* Claims about the security log                                           *)
(***************************************************************************)
\* some contiguous piece of the text is a contiguous piece of the string
SharesPiece(text, str) ==
  \E i \in 1..Len(text) : \E j \in i..Len(text) :
    \E k \in 1..Len(str) :
      /\ k + (j - i) <= Len(str)
      /\ SubSeq(str, k, k + (j - i)) = SubSeq(text, i, j)

\* C21: no entry of the security log written for a request holds the
\* requested path, a piece of it, or content: the error text of every
\* entry is free of them, and filePath and content are redacted.
C21_LogFreeOfPathData ==
  \A n \in 1..Len(securityLog) :
    /\ securityLog[n].filePath = "[REDACTED]"
    /\ securityLog[n].content = "[REDACTED]"
    /\ ~SharesPiece(securityLog[n].detail, filePath)
    /\ bodyContent.type = "string" =>
         ~SharesPiece(securityLog[n].detail, bodyContent.val)

\* C21, the failing state: /s/x.md vanished between existsSync and
\* statSync; the logged error is the message of the ENOENT error, which
\* names the whole path.
C21_PathInLog ==
  /\ hpc = "done"
  /\ filePath = <<Slash, "s", Slash, "x", Dot, "m", "d">>
  /\ Len(securityLog) = 1
  /\ securityLog[1].event = "Invalid file path access attempt"
  /\ securityLog[1].error = "Path validation error"
  /\ securityLog[1].detail = <<"ENOENT", "stat">> \o filePath

(***************************************************************************)
(* Claims about the rate limiter                                           *)
(***************************************************************************)
\* the requests of ip passed on at an instant from t up to, and not
\* including, t + RATE_LIMIT_WINDOW
PassedWithin(ip, t) ==
  Cardinality({ i \in 1..Len(passed[ip]) :
                  passed[ip][i] >= t /\ passed[ip][i] < t + RATE_LIMIT_WINDOW })

\* C22: no interval of RATE_LIMIT_WINDOW holds more than
\* RATE_LIMIT_MAX_REQUESTS requests of one IP that were passed on.
C22_RollingWindow ==
  \A ip \in Ips : \A t \in 0..MaxTime :
    PassedWithin(ip, t) <= RATE_LIMIT_MAX_REQUESTS

\* C22, the failing state: a window that opened at 0 ended at
\* RATE_LIMIT_WINDOW; requests passed just before its end and a full
\* allowance right at the start of the next window lie within one interval.
C22_BurstAcrossReset ==
  \E ip \in Ips :
    /\ passed[ip] # <<>>
    /\ passed[ip][1] = 0
    /\ rateLimitStore[ip] =
         [count |-> RATE_LIMIT_MAX_REQUESTS, resetTime |-> 2 * RATE_LIMIT_WINDOW]
    /\ now = RATE_LIMIT_WINDOW
    /\ PassedWithin(ip, RATE_LIMIT_WINDOW - 1) > RATE_LIMIT_MAX_REQUESTS

(***************************************************************************)
(* Claims about the editor page                                            *)
(***************************************************************************)
\* C23: whenever the editor's content differs from the content last loaded
\* or successfully saved, local storage holds a draft equal to the editor's
\* content and the dirty flag is set.
C23_DraftPreserved ==
  editorValue # lastSynced => localDraft = Content(editorValue) /\ isDirty

\* C23, the failing state: "a" was sent for saving, the user typed "b"
\* while the request was in flight, and the save's success removed the draft
\* and reset the dirty flag: "b" is in the editor only.
C23_InputDuringSaveLost ==
  /\ editorValue = <<"b">>
  /\ diskContent = <<"a">>
  /\ lastSynced = <<"a">>
  /\ currentFilePath
  /\ ~isSaving
  /\ ~loadInFlight
  /\ localDraft = NoContent
  /\ ~isDirty

(***************************************************************************)
(* Claims about validateFilePath as a function                             *)
(***************************************************************************)
\* two raw paths name the same absolute, normalized path
SameTarget(p, q) == Normalize(Resolve(p)) = Normalize(Resolve(q))

\* C24: two calls of validateFilePath with the same policy, for raw paths
\* that normalize to the same absolute path, with no change of the
\* filesystem from the start of the first to the end of the second, return
\* the same decision.
C24_SameDecision ==
  ( /\ calls = 2
    /\ vpc = "done"
    /\ <<fsKind, fsSize>> = fsAtStart
    /\ SameTarget(prevPath, filePath) )
  => decision = prevDecision

\* C24: /s/x.md was allowed, and its spelling /t/../s/x.md, which starts
\* outside the allowed directory, is allowed by the second call
C24_DetourDecidedAlike ==
  /\ calls = 2
  /\ vpc = "done"
  /\ <<fsKind, fsSize>> = fsAtStart
  /\ config.allowedDirectories = << <<Slash, "s">> >>
  /\ prevPath = <<Slash, "s", Slash, "x", Dot, "m", "d">>
  /\ filePath = <<Slash, "t", Slash, Dot, Dot, Slash, "s", Slash, "x", Dot, "m", "d">>
  /\ prevDecision = Allow
  /\ decision = Allow

\* C25: a path whose normalized form lies outside every allowed directory
\* is never denied for its extension or for its size.
C25_ContainmentGates ==
  (vpc = "done" /\ ~InsideAllowed(NormalizedPath(filePath), config))
  => decision.error \notin { "File extension is not allowed",
                             "File size exceeds maximum allowed size" }

\* C25, the failing input: /s-o/x.e, an existing file outside the allowed
\* directory /s, is denied for its extension, which tells that it exists.
C25_OutsideDeniedForExtension ==
  /\ vpc = "done"
  /\ fsKind = "file"
  /\ filePath = <<Slash, "s", "-", "o", Slash, "x", Dot, "e">>
  /\ config.allowedDirectories = << <<Slash, "s">> >>
  /\ ~InsideAllowed(NormalizedPath(filePath), config)
  /\ decision = Deny("File extension is not allowed", <<"e">>)

\* C26: a failure of a filesystem call inside validateFilePath gives a
\* denial of the kind "Path validation error" that carries nothing of the
\* failure's cause.
C26_CauseKeptBack ==
  (vpc = "done" /\ decision.error = "Path validation error")
  => decision.detail = <<>>

\* C26, the failing state: the file was removed between existsSync and
\* statSync; the decision is a denial, and its text holds the message of
\* the error, the normalized path included.
C26_CauseInDecision ==
  /\ vpc = "done"
  /\ hpc = "idle"
  /\ fsKind = "none"
  /\ fsAtStart[1] = "file"
  /\ filePath = <<Slash, "t", Slash, Dot, Dot, Slash, "s", Slash, "x", Dot, "m", "d">>
  /\ ~decision.valid
  /\ decision.error = "Path validation error"
  /\ decision.detail = <<"ENOENT", "stat", Slash, "s", Slash, "x", Dot, "m", "d">>

(***************************************************************************)
(* Claims about the save endpoint's payload and the sanitizer              *)
(***************************************************************************)
\* C27: a save whose content is a string within maxFileSize is not denied
\* for the size of the file that is on disk already.
C27_SaveIgnoresExistingSize ==
  ( /\ hpc = "done"
    /\ endpoint = "save"
    /\ InputPassed
    /\ bodyContent.type = "string"
    /\ ~Gt(ByteLength(bodyContent.val), config.maxFileSize) )
  => decision.error # "File size exceeds maximum allowed size"

\* C27, the failing input: an empty content is to replace /s/x.md, which
\* is larger than maxFileSize; the save is denied for the old size and
\* nothing is written.
C27_SaveDeniedForOldSize ==
  /\ hpc = "done"
  /\ endpoint = "save"
  /\ filePath = <<Slash, "s", Slash, "x", Dot, "m", "d">>
  /\ bodyContent = JsString(<<>>)
  /\ fsKind = "file"
  /\ fsSize = MaxFileSize + 1
  /\ decision.error = "File size exceeds maximum allowed size"
  /\ response.status = 403
  /\ "writeFile" \notin touched
  /\ written = NoPayload

\* C28: the payload a successful save has written is at most maxFileSize
\* bytes long in UTF-8, does not start with a byte-order mark and holds no
\* null byte.
C28_WrittenPayloadChecked ==
  written.done =>
    /\ ~Gt(ByteLength(written.val), config.maxFileSize)
    /\ StripLeadingBom(written.val) = written.val
    /\ ~Includes(written.val, NUL)

\* C28, the failing input: the content "a\0" is within the size limit and
\* is written with its null byte.
C28_NullByteWritten ==
  /\ hpc = "done"
  /\ endpoint = "save"
  /\ response = Success
  /\ bodyContent = JsString(<<"a", NUL>>)
  /\ written = Payload(<<"a", NUL>>)
  /\ fsSize = 2

\* C29: the result of sanitizeFileContent holds no null byte and does not
\* start with a byte-order mark, and sanitizeFileContent applied to it
\* returns it unchanged.
C29_SanitizerCompleteIdempotent ==
  /\ Len(sanOutput) >= 1 =>
       /\ ~Includes(sanOutput[1], NUL)
       /\ (sanOutput[1] = <<>> \/ Head(sanOutput[1]) # BOM)
  /\ Len(sanOutput) = 2 => sanOutput[2] = sanOutput[1]

\* C29, the failing input: of two byte-order marks at the start one is
\* left by the first application and removed by the second.
C29_SecondBomLeft ==
  /\ sanInput = JsString(<<BOM, BOM, "a">>)
  /\ sanOutput = << <<BOM, "a">>, <<"a">> >>

=============================================================================
